---- MODULE Spec2Model ----
(***************************************************************************)
(* Model of src/src/App.jsx: the App component of the US Census Explorer.  *)
(*                                                                         *)
(* State: the six useState cells of App, the fetchCensusData calls that    *)
(* are suspended at an await, and the HTTP requests that are outstanding.  *)
(* One action per event handler and per continuation of fetchCensusData.   *)
(*                                                                         *)
(* JavaScript values are tagged records: Null, Undefined, Str(s), numbers  *)
(* (Num(n), NaN), arrays and objects.  Text that the code inspects         *)
(* character by character (trim, parseFloat) is a sequence of one-character*)
(* strings; text that is only stored and compared is a TLA+ string.        *)
(***************************************************************************)
EXTENDS Integers, Sequences, FiniteSets, TLC

VARIABLES
    zipCode,      \* useState('')     line 48: sequence of characters
    censusData,   \* useState(null)   line 49: Null or the parsed response body
    loading,      \* useState(false)  line 50
    error,        \* useState('')     line 51
    apiKey,       \* useState('')     line 52: sequence of characters
    coordinates,  \* useState(null)   line 53: Null or Arr(<<lat, lon>>)
    searches,     \* the fetchCensusData calls suspended at an await, by call id
    net,          \* the HTTP requests issued and not yet answered
    nextId,       \* id of the next fetchCensusData call that passes validation
    ended,        \* history: the call that returned last, and how its requests went
    coordsBy      \* history: id of the call that wrote coordinates last (0: none)

vars == <<zipCode, censusData, loading, error, apiKey, coordinates,
          searches, net, nextId, ended, coordsBy>>

-----------------------------------------------------------------------------
(* Bounds of the model *)

\* number of fetchCensusData calls that pass validation in one behaviour
MaxSearches == 2
\* widest table row drawn for the table-to-record transform
MaxCols == 2
\* decimal digits kept behind the point by the fixed-point model of a float
FracDigits == 4

-----------------------------------------------------------------------------
(* JavaScript values *)

Null == [t |-> "null"]
Undefined == [t |-> "undefined"]
Str(s) == [t |-> "string", s |-> s]
Num(n) == [t |-> "number", v |-> n]
NaN == [t |-> "NaN"]
Arr(items) == [t |-> "array", items |-> items]
Obj(map) == [t |-> "object", map |-> map]

\* ToBoolean of the values a record field can hold: undefined, null and ''
\* are falsy, every other string is truthy
Truthy(v) == v.t = "string" /\ v.s # ""

\* a[i] of a JavaScript array given as a sequence, zero-based: undefined
\* when i is out of range
At(a, i) == IF i + 1 \in 1..Len(a) THEN a[i + 1] ELSE Undefined

-----------------------------------------------------------------------------
(* Library functions the handlers call *)

WhiteSpace == {" "}

RECURSIVE trimStart(_)
trimStart(s) ==
    IF s # <<>> /\ Head(s) \in WhiteSpace THEN trimStart(Tail(s)) ELSE s

RECURSIVE trimEnd(_)
trimEnd(s) ==
    IF s # <<>> /\ s[Len(s)] \in WhiteSpace
    THEN trimEnd(SubSeq(s, 1, Len(s) - 1))
    ELSE s

\* String.prototype.trim
trim(s) == trimEnd(trimStart(s))

Digits == <<"0", "1", "2", "3", "4", "5", "6", "7", "8", "9">>
IsDigit(c) == \E d \in DOMAIN Digits : Digits[d] = c
DigitVal(c) == (CHOOSE d \in DOMAIN Digits : Digits[d] = c) - 1

\* the longest prefix of s made of decimal digits
RECURSIVE DigitRun(_)
DigitRun(s) ==
    IF s # <<>> /\ IsDigit(Head(s))
    THEN <<Head(s)>> \o DigitRun(Tail(s))
    ELSE <<>>

\* the number a run of decimal digits denotes, most significant digit first
RECURSIVE Decimal(_, _)
Decimal(ds, acc) ==
    IF ds = <<>> THEN acc ELSE Decimal(Tail(ds), 10 * acc + DigitVal(Head(ds)))

RECURSIVE Pow10(_)
Pow10(n) == IF n = 0 THEN 1 ELSE 10 * Pow10(n - 1)

\* the first FracDigits digits of a fraction, padded with zeros on the right
FracPart(fp) ==
    [i \in 1..FracDigits |-> IF i <= Len(fp) THEN fp[i] ELSE "0"]

\* parseFloat: skips leading white space, reads an optional sign, digits, an
\* optional point and digits, and ignores what follows; NaN when no digit
\* was read.  A float is modelled as a fixed-point integer, in units of
\* 10^-FracDigits.  Exponents and "Infinity" are not modelled: no input of
\* the model holds them.
parseFloat(v) ==
    IF v.t # "string" THEN NaN
    ELSE LET s0 == trimStart(v.s)
             signed == s0 # <<>> /\ Head(s0) \in {"-", "+"}
             neg == s0 # <<>> /\ Head(s0) = "-"
             s1 == IF signed THEN Tail(s0) ELSE s0
             ip == DigitRun(s1)
             r == SubSeq(s1, Len(ip) + 1, Len(s1))
             fp == IF r # <<>> /\ Head(r) = "." THEN DigitRun(Tail(r)) ELSE <<>>
             mag == Decimal(ip, 0) * Pow10(FracDigits) + Decimal(FracPart(fp), 0)
         IN  IF ip = <<>> /\ fp = <<>> THEN NaN
             ELSE Num(IF neg THEN 0 - mag ELSE mag)

\* the value of a decimal literal of the source text
Literal(chars) == parseFloat(Str(chars))

\* [39.8283, -98.5795], the centre of the US
Fallback ==
    Arr(<<Literal(<<"3", "9", ".", "8", "2", "8", "3">>),
          Literal(<<"-", "9", "8", ".", "5", "7", "9", "5">>)>>)

-----------------------------------------------------------------------------
(* formatCensusData and getKeyStats *)

EmptyMap == [k \in {} |-> Undefined]

\* formatted[header] = value
Put(map, header, value) ==
    [k \in DOMAIN map \cup {header} |-> IF k = header THEN value ELSE map[k]]

\* data[key] of an object: undefined for a key it does not have
Get(obj, key) == IF key \in DOMAIN obj.map THEN obj.map[key] ELSE Undefined

\* headers.forEach((header, index) => { formatted[header] = values[index] }),
\* from position index (zero-based) on
RECURSIVE forEachHeader(_, _, _, _)
forEachHeader(headers, values, index, formatted) ==
    IF index >= Len(headers) THEN formatted
    ELSE forEachHeader(headers, values, index + 1,
                       Put(formatted, At(headers, index), At(values, index)))

\* a plausible slip: values read one position off
RECURSIVE forEachHeaderShifted(_, _, _, _)
forEachHeaderShifted(headers, values, index, formatted) ==
    IF index >= Len(headers) THEN formatted
    ELSE forEachHeaderShifted(headers, values, index + 1,
                       Put(formatted, At(headers, index), At(values, index + 1)))

formatCensusDataShifted(data) ==
    IF data.t = "null" \/ Len(data.items) < 2 THEN Null
    ELSE Obj(forEachHeaderShifted(data.items[1], data.items[2], 0, EmptyMap))

\* data is Null or Arr(rows), each row a sequence; the order in which the
\* keys were inserted is not modelled
formatCensusData(data) ==
    IF data.t = "null" \/ Len(data.items) < 2 THEN Null
    ELSE Obj(forEachHeader(data.items[1], data.items[2], 0, EmptyMap))

\* a || b
Or(a, b) == IF Truthy(a) THEN a ELSE b

\* a plausible slip: households read from its own column
getKeyStatsOwnHouseholds(data) ==
    IF data.t = "null" THEN Null
    ELSE [t |-> "object",
          totalPop |-> Or(Get(data, "DP02_0001E"), Str("N/A")),
          medianAge |-> Or(Get(data, "DP02_0028E"), Str("N/A")),
          households |-> Or(Get(data, "DP02_0002E"), Str("N/A")),
          education |-> Or(Get(data, "DP02_0068PE"), Str("N/A"))]

getKeyStats(data) ==
    IF data.t = "null" THEN Null
    ELSE [t |-> "object",
          totalPop |-> Or(Get(data, "DP02_0001E"), Str("N/A")),
          medianAge |-> Or(Get(data, "DP02_0028E"), Str("N/A")),
          households |-> Or(Get(data, "DP02_0001E"), Str("N/A")),
          education |-> Or(Get(data, "DP02_0068PE"), Str("N/A"))]

\* what a render computes from the state (lines 119 and 139)
formattedData == formatCensusData(censusData)
keyStats == getKeyStats(formattedData)

-----------------------------------------------------------------------------
(* What the user can type and what the two servers can answer *)

\* texts typed into an input field: empty, white space only, and a value
Inputs == {<<>>, <<" ">>, <<"1">>}

\* bodies of the demographics endpoint: an array of arrays
CensusBodies ==
    { Arr(<< <<"DP02_0001E">>, <<Str("1000")>> >>),
      Arr(<< <<"NAME", "DP02_0001E">>, <<Str("ZCTA5"), Str("2000")>> >>) }

Place(lat, lon) == [latitude |-> lat, longitude |-> lon]

\* bodies of the geocoding endpoint: an object that may lack places, may
\* have an empty places list, and whose places[0] may lack a field
GeoBodies ==
    { [places |-> Undefined],
      [places |-> Arr(<<>>)],
      [places |-> Arr(<<Place(Str(<<"4", "0", ".", "1">>),
                               Str(<<"-", "7", "3", ".", "9">>))>>)],
      [places |-> Arr(<<Place(Undefined, Str(<<"-", "7", "3", ".", "9">>))>>)] }

\* err.message of a rejected fetch and of a body that is not JSON
TransportMessages == {"Failed to fetch"}
JsonMessages == {"Unexpected end of JSON input"}

censusUrl(zip, key) == [api |-> "api.census.gov", zip |-> zip, key |-> key]
geocodeUrl(zip) == [api |-> "api.zippopotam.us", zip |-> zip]
Request(id, url) == [id |-> id, url |-> url]

NoCall == [id |-> 0, primary |-> "none", geo |-> "none", body |-> Null]

Init ==
    /\ zipCode = <<>>
    /\ censusData = Null
    /\ loading = FALSE
    /\ error = ""
    /\ apiKey = <<>>
    /\ coordinates = Null
    /\ searches = <<>>
    /\ net = {}
    /\ nextId = 1
    /\ ended = NoCall
    /\ coordsBy = 0

-----------------------------------------------------------------------------
(* Event handlers *)

\* onChange of the zip code input (line 191)
setZipCode(value) ==
    /\ zipCode' = value
    /\ UNCHANGED <<censusData, loading, error, apiKey, coordinates,
                   searches, net, nextId, ended, coordsBy>>

\* onChange of the API key input (line 177)
setApiKey(value) ==
    /\ apiKey' = value
    /\ UNCHANGED <<zipCode, censusData, loading, error, coordinates,
                   searches, net, nextId, ended, coordsBy>>

\* a slip: both requests are issued at once
StartSearchBothAtOnce ==
    /\ nextId <= MaxSearches
    /\ loading' = TRUE
    /\ error' = ""
    /\ net' = net \cup {Request(nextId, censusUrl(zipCode, apiKey)),
                        Request(nextId, geocodeUrl(zipCode))}
    /\ searches' = (nextId :> [pc |-> "censusResponse",
                               zipCode |-> zipCode,
                               startData |-> censusData,
                               startCoordinates |-> coordinates,
                               data |-> Null]) @@ searches
    /\ nextId' = nextId + 1
    /\ UNCHANGED <<zipCode, censusData, apiKey, coordinates, ended, coordsBy>>

\* setLoading(true), setError('') and the Census request, up to the first
\* await (lines 67-73)
StartSearch ==
    /\ nextId <= MaxSearches
    /\ loading' = TRUE
    /\ error' = ""
    /\ net' = net \cup {Request(nextId, censusUrl(zipCode, apiKey))}
    /\ searches' = (nextId :> [pc |-> "censusResponse",
                               zipCode |-> zipCode,
                               startData |-> censusData,
                               startCoordinates |-> coordinates,
                               data |-> Null]) @@ searches
    /\ nextId' = nextId + 1
    /\ UNCHANGED <<zipCode, censusData, apiKey, coordinates, ended, coordsBy>>

\* a slip: a failed validation clears the results on display
fetchCensusDataClearsResults ==
    IF trim(zipCode) = <<>> \/ trim(apiKey) = <<>>
    THEN /\ error' = IF trim(zipCode) = <<>> THEN "Please enter a zip code"
                     ELSE "Please enter your Census API key"
         /\ censusData' = Null
         /\ coordinates' = Null
         /\ UNCHANGED <<zipCode, loading, apiKey,
                        searches, net, nextId, ended, coordsBy>>
    ELSE StartSearch

\* fetchCensusData up to its first await (lines 56-73)
fetchCensusData ==
    IF trim(zipCode) = <<>>
    THEN /\ error' = "Please enter a zip code"
         /\ UNCHANGED <<zipCode, censusData, loading, apiKey, coordinates,
                        searches, net, nextId, ended, coordsBy>>
    ELSE IF trim(apiKey) = <<>>
    THEN /\ error' = "Please enter your Census API key"
         /\ UNCHANGED <<zipCode, censusData, loading, apiKey, coordinates,
                        searches, net, nextId, ended, coordsBy>>
    ELSE StartSearch

\* onClick of the Explore button, which is disabled while loading
\* (lines 199-201)
ClickExplore ==
    /\ ~loading
    /\ fetchCensusData

\* onKeyPress of the zip code input: e.key === 'Enter' && fetchCensusData()
\* (line 194)
PressEnter == fetchCensusData

-----------------------------------------------------------------------------
(* Continuations of fetchCensusData *)

Awaiting(id, pc) == id \in DOMAIN searches /\ searches[id].pc = pc

Without(id) == [i \in DOMAIN searches \ {id} |-> searches[i]]

\* finally { setLoading(false) } and the return of the call
Return(id, primary, geo, body) ==
    /\ loading' = FALSE
    /\ searches' = Without(id)
    /\ ended' = [id |-> id, primary |-> primary, geo |-> geo, body |-> body]

\* catch (err) { setError(err.message) } (lines 98-102)
Catch(id, message, primary) ==
    /\ error' = message
    /\ Return(id, primary, "none", Null)
    /\ UNCHANGED <<zipCode, censusData, apiKey, coordinates, nextId, coordsBy>>

\* await fetch(censusUrl) settles (lines 73-77)
CensusResponse(id) ==
    /\ Awaiting(id, "censusResponse")
    /\ \E req \in net :
        /\ req.id = id
        /\ net' = net \ {req}
        /\ \/ \E m \in TransportMessages : Catch(id, m, "rejected")
           \/ Catch(id, "Failed to fetch Census data", "status")
           \/ /\ searches' = [searches EXCEPT ![id].pc = "censusJson"]
              /\ UNCHANGED <<zipCode, censusData, loading, error, apiKey,
                             coordinates, nextId, ended, coordsBy>>

\* await censusResponse.json() settles; on a body, setCensusData and the
\* geocoding fetch (lines 79-85)
CensusJson(id) ==
    /\ Awaiting(id, "censusJson")
    /\ \/ /\ \E m \in JsonMessages : Catch(id, m, "unparsable")
          /\ UNCHANGED net
       \/ \E data \in CensusBodies :
            /\ censusData' = data
            /\ net' = net \cup {Request(id, geocodeUrl(searches[id].zipCode))}
            /\ searches' = [searches EXCEPT ![id].pc = "geoResponse",
                                            ![id].data = data]
            /\ UNCHANGED <<zipCode, loading, error, apiKey, coordinates,
                           nextId, ended, coordsBy>>

\* catch { setCoordinates([39.8283, -98.5795]) } (lines 93-96)
CatchGeo(id, geo, body) ==
    /\ coordinates' = Fallback
    /\ coordsBy' = id
    /\ Return(id, "ok", geo, body)
    /\ UNCHANGED <<zipCode, censusData, error, apiKey, nextId>>

\* await fetch(geocodeUrl) settles (lines 85-86, 92)
GeoResponse(id) ==
    /\ Awaiting(id, "geoResponse")
    /\ \E req \in net :
        /\ req.id = id
        /\ net' = net \ {req}
        /\ \/ CatchGeo(id, "rejected", Null)
           \/ /\ Return(id, "ok", "status", Null)
              /\ UNCHANGED <<zipCode, censusData, error, apiKey, coordinates,
                             nextId, coordsBy>>
           \/ /\ searches' = [searches EXCEPT ![id].pc = "geoJson"]
              /\ UNCHANGED <<zipCode, censusData, loading, error, apiKey,
                             coordinates, nextId, ended, coordsBy>>

\* geoData.places[0] can be read without a TypeError
HasPlace(geoData) ==
    /\ geoData.places.t = "array"
    /\ Len(geoData.places.items) >= 1

\* await geoResponse.json() settles (lines 87-91)
GeoJson(id) ==
    /\ Awaiting(id, "geoJson")
    /\ UNCHANGED net
    /\ \/ CatchGeo(id, "unparsable", Null)
       \/ \E geoData \in GeoBodies :
            IF HasPlace(geoData)
            THEN /\ coordinates' =
                        Arr(<<parseFloat(geoData.places.items[1].latitude),
                              parseFloat(geoData.places.items[1].longitude)>>)
                 /\ coordsBy' = id
                 /\ Return(id, "ok", "ok", geoData)
                 /\ UNCHANGED <<zipCode, censusData, error, apiKey, nextId>>
            ELSE CatchGeo(id, "noplace", Null)

Next ==
    \/ \E value \in Inputs : setZipCode(value)
    \/ \E value \in Inputs : setApiKey(value)
    \/ ClickExplore
    \/ PressEnter
    \/ \E id \in 1..MaxSearches : CensusResponse(id)
    \/ \E id \in 1..MaxSearches : CensusJson(id)
    \/ \E id \in 1..MaxSearches : GeoResponse(id)
    \/ \E id \in 1..MaxSearches : GeoJson(id)

Spec == Init /\ [][Next]_vars

-----------------------------------------------------------------------------
(* The transform and the stat extraction on every small table: censusData *)
(* starts as any of the tables, and each render applies formatCensusData   *)
(* and getKeyStats to it (formattedData, keyStats).                        *)

RECURSIVE Rows(_, _)
\* the rows of at most n cells over cells
Rows(cells, n) ==
    IF n = 0 THEN {<<>>}
    ELSE LET shorter == Rows(cells, n - 1)
         IN  shorter \cup {<<c>> \o r : c \in cells, r \in shorter}

ColumnNames == {"DP02_0001E", "DP02_0028E", "DP02_0068PE", "NAME"}
CellValues == {Str("1000"), Str(""), Null}

\* tables of zero, one, two and three rows; rows 0 and 1 need not be of the
\* same length, and a column name may repeat
Tables ==
    LET headers == Rows(ColumnNames, MaxCols)
        values == Rows(CellValues, MaxCols)
    IN  {Arr(<<>>)}
        \cup {Arr(<<h>>) : h \in headers}
        \cup {Arr(<<h, v>>) : h \in headers, v \in values}
        \cup {Arr(<<h, v, <<Str("9")>> >>) : h \in headers, v \in values}

\* the table on display is any of the tables
InitTables ==
    /\ censusData \in Tables \cup {Null}
    /\ zipCode = <<>>
    /\ loading = FALSE
    /\ error = ""
    /\ apiKey = <<>>
    /\ coordinates = Null
    /\ searches = <<>>
    /\ net = {}
    /\ nextId = 1
    /\ ended = NoCall
    /\ coordsBy = 0

\* the user edits the two inputs; every change renders again
NextTables ==
    \/ \E value \in Inputs : setZipCode(value)
    \/ \E value \in Inputs : setApiKey(value)

SpecTables == InitTables /\ [][NextTables]_vars

-----------------------------------------------------------------------------
(* Claims *)

Census == "api.census.gov"
Geocode == "api.zippopotam.us"

InFlight == DOMAIN searches

\* the call id returns in this step
Ends(id) == id \in InFlight /\ ended'.id = id

ValidationMessages == {"Please enter a zip code", "Please enter your Census API key"}

GeoFailures == {"rejected", "status", "unparsable", "noplace"}

\* C1 as stated: a search whose Census request returns a non-success status
\* ends with a non-empty error and with censusData and coordinates equal to
\* the values they had when the search started.
C1_PrimaryStatusLeavesResults ==
    [][\A id \in 1..MaxSearches :
        Ends(id) /\ ended'.primary = "status"
            => /\ error' # ""
               /\ censusData' = searches[id].startData
               /\ coordinates' = searches[id].startCoordinates]_vars

\* C2 as stated: a search whose primary request succeeded and whose
\* geocoding request failed in any way ends with coordinates at the
\* fallback point and with no error shown.
C2_GeoFailureGivesFallback ==
    [][\A id \in 1..MaxSearches :
        Ends(id) /\ ended'.primary = "ok" /\ ended'.geo \in GeoFailures
            => /\ coordinates' = Fallback
               /\ error' = ""]_vars

\* C3 as stated: at most one search is in flight at any time.
C3_OneSearchInFlight == Cardinality(InFlight) <= 1

\* C4: a submit with a blank zip code or a blank API key sets a validation
\* message, issues no request and leaves loading, censusData and
\* coordinates as they were.
C4_ValidationIssuesNothing ==
    [][(ClickExplore \/ PressEnter)
        /\ (trim(zipCode) = <<>> \/ trim(apiKey) = <<>>)
            => /\ error' \in ValidationMessages
               /\ net' = net
               /\ searches' = searches
               /\ loading' = loading
               /\ censusData' = censusData
               /\ coordinates' = coordinates]_vars

\* C4's case: a validation message is shown over results of an earlier
\* search, while a later search is still loading
C4_Witness ==
    /\ error \in ValidationMessages
    /\ censusData # Null
    /\ coordinates # Null
    /\ loading
    /\ net # {}

\* C5: every geocoding request in flight belongs to a search that is still
\* running and has received a successful primary response, and that
\* search's primary request is no longer in flight; so a search whose
\* primary request failed has issued none.
C5_GeocodingAfterPrimary ==
    \A req \in net :
        req.url.api = Geocode
            => /\ req.id \in InFlight
               /\ searches[req.id].data # Null
               /\ ~ \E other \in net : other.id = req.id /\ other.url.api = Census

\* C5's case: a geocoding request is in flight after an earlier search
\* ended on a failed primary request
C5_Witness ==
    /\ \E req \in net : req.url.api = Geocode
    /\ ended.id # 0
    /\ ended.primary # "ok"

Range(row) == {row[i] : i \in DOMAIN row}

\* the place of column name in row 0, zero-based (the first, when it repeats)
ColumnOf(headers, name) ==
    CHOOSE i \in 0..(Len(headers) - 1) :
        /\ At(headers, i) = name
        /\ \A j \in 0..(i - 1) : At(headers, j) # name

\* C6 as stated: a search whose two requests both succeed ends with
\* censusData equal to its primary response, coordinates equal to the parsed
\* latitude and longitude of places[0], error empty and loading false, and
\* the population stat equal to the value of column DP02_0001E.
C6_SuccessfulSearch ==
    [][\A id \in 1..MaxSearches :
        Ends(id) /\ ended'.geo = "ok"
            => LET data == searches[id].data
                   place == ended'.body.places.items[1]
                   headers == data.items[1]
               IN  /\ censusData' = data
                   /\ coordinates' = Arr(<<parseFloat(place.latitude),
                                           parseFloat(place.longitude)>>)
                   /\ error' = ""
                   /\ loading' = FALSE
                   /\ "DP02_0001E" \in Range(headers) =>
                        getKeyStats(formatCensusData(censusData')).totalPop
                            = At(data.items[2], ColumnOf(headers, "DP02_0001E"))]_vars

\* the last place of column name in row 0, zero-based
LastColumnOf(headers, name) ==
    CHOOSE i \in 0..(Len(headers) - 1) :
        /\ At(headers, i) = name
        /\ \A j \in (i + 1)..(Len(headers) - 1) : At(headers, j) # name

IsTable(data) == data.t = "array" /\ Len(data.items) >= 2

\* C7 as stated: absence for a missing table or one of fewer than two rows;
\* otherwise the mapping whose keys are the column names of row 0 and that
\* sends data[0][i] to data[1][i] for every i.
C7_PairsEveryColumn ==
    /\ ~IsTable(censusData) => formattedData = Null
    /\ IsTable(censusData) =>
        LET headers == censusData.items[1]
            values == censusData.items[2]
        IN  /\ formattedData.t = "object"
            /\ DOMAIN formattedData.map = Range(headers)
            /\ \A i \in 0..(Len(headers) - 1) :
                formattedData.map[At(headers, i)] = At(values, i)

\* C7 amended: absence for a missing table or one of fewer than two rows;
\* otherwise the mapping whose keys are the column names of row 0 and that
\* sends each column name to the value at the last place the name has in
\* row 0 (data[0][i] to data[1][i] for every i when no name repeats).
C7_PairsLastOccurrence ==
    /\ ~IsTable(censusData) => formattedData = Null
    /\ IsTable(censusData) =>
        LET headers == censusData.items[1]
            values == censusData.items[2]
        IN  /\ formattedData.t = "object"
            /\ DOMAIN formattedData.map = Range(headers)
            /\ \A name \in Range(headers) :
                formattedData.map[name] = At(values, LastColumnOf(headers, name))

\* C7's case: a table of two rows in which a column name repeats with two
\* different values
C7_Witness ==
    /\ IsTable(censusData)
    /\ formattedData.t = "object"
    /\ LET headers == censusData.items[1]
           values == censusData.items[2]
       IN  \E i, j \in 0..(Len(headers) - 1) :
            /\ i < j
            /\ At(headers, i) = At(headers, j)
            /\ At(values, i) # At(values, j)

StatKeys ==
    [totalPop |-> "DP02_0001E", medianAge |-> "DP02_0028E",
     households |-> "DP02_0001E", education |-> "DP02_0068PE"]

\* C8: on a record, each of the four stats is the record's value at its
\* fixed key or "N/A", it is "N/A" when the key is missing, and totalPop
\* equals households.
C8_KeyStats ==
    formattedData.t = "object" =>
        /\ keyStats.t = "object"
        /\ \A f \in DOMAIN StatKeys :
            /\ keyStats[f] \in {Get(formattedData, StatKeys[f]), Str("N/A")}
            /\ StatKeys[f] \notin DOMAIN formattedData.map => keyStats[f] = Str("N/A")
        /\ keyStats.totalPop = keyStats.households

\* C8's case: a record that holds a population value and lacks the other
\* keys
C8_Witness ==
    /\ formattedData.t = "object"
    /\ DOMAIN formattedData.map = {"DP02_0001E", "NAME"}
    /\ keyStats.totalPop = Str("1000")
    /\ keyStats.households = Str("1000")
    /\ keyStats.medianAge = Str("N/A")
    /\ keyStats.education = Str("N/A")

\* C9 as stated: when no search is in flight and the search that finished
\* last had a successful primary request, the coordinates shown were written
\* by that search.
C9_CoordinatesOfLastSearch ==
    InFlight = {} /\ ended.primary = "ok" /\ coordinates # Null
        => coordsBy = ended.id

\* C10 as stated: loading is true exactly while a search is in flight.
C10_LoadingWhileInFlight == loading <=> InFlight # {}

====
